---- MODULE Spec2Model ----
(***************************************************************************)
(* Model of the two scripts of SeCaTiMaL:                                  *)
(*   CAI-Unet/model.py: unet_model_3d, the loop-based construction of a    *)
(*     3D U-Net (shapes and filter counts of every layer it creates, and   *)
(*     the metric list it compiles the model with);                        *)
(*   train_preprocess_nipypeline_UMC_20191011.py: the nipype workflow      *)
(*     graph built by the wf.connect calls and its execution by wf.run().  *)
(***************************************************************************)
EXTENDS Integers, Sequences, FiniteSets, TLC

VARIABLES
    \* ---- CAI-Unet/model.py, unet_model_3d ----
    args,              \* the call's arguments
    upc,               \* position in unet_model_3d
    layer_depth,       \* loop variable of the encoder / decoder loop
    current_layer,     \* tensor (channels, spatial size) held by current_layer
    levels,            \* levels: per encoder level, the tensors appended
    layers,            \* every layer created so far, in creation order
    output,            \* tensor of the model's output (after line 92)
    compiled_metrics,  \* metrics handed to model.compile
    \* ---- train_preprocess_nipypeline_UMC_20191011.py ----
    ppc,               \* position in the script
    shorter_list,      \* sorted subject list
    wf_edges,          \* connections made by wf.connect so far
    instances,         \* parameter combinations the graph is expanded for
    exec_edges,        \* per node of the expanded graph, the nodes it depends on
    runs               \* how often each node of the execution graph has run

unet_vars == <<args, upc, layer_depth, current_layer, levels, layers, output,
               compiled_metrics>>
pipe_vars == <<ppc, shorter_list, wf_edges, instances, exec_edges, runs>>
vars == <<args, upc, layer_depth, current_layer, levels, layers, output,
          compiled_metrics, ppc, shorter_list, wf_edges, instances,
          exec_edges, runs>>

----------------------------------------------------------------------------
(* Bounds of the enumerated inputs. *)
MaxSize == 4
MaxPool == 2
MaxDepth == 3
MaxBaseFilters == 2
MaxLabels == 2
MaxMetrics == 2
MaxSubjects == 1

----------------------------------------------------------------------------
(* Tensors: channels_first, so shape = (channels, x, y, z).                *)

Axes == 1..3

Tensor(c, s) == [channels |-> c, size |-> s]

NoTensor == Tensor(0, <<0, 0, 0>>)

CeilDiv(a, b) == (a + b - 1) \div b

Max(a, b) == IF a >= b THEN a ELSE b

\* Input(input_shape)
Input(input_shape) == Tensor(input_shape[1], SubSeq(input_shape, 2, 4))

\* Conv3D(n_filters, kernel, padding, strides)(t): 'same' pads so that the
\* output is ceil(in / stride), 'valid' gives ceil((in - kernel + 1) / stride).
Conv3D(t, n_filters, kernel, padding, strides) ==
    Tensor(n_filters,
           [k \in Axes |->
               IF padding = "same"
               THEN CeilDiv(t.size[k], strides[k])
               ELSE CeilDiv(t.size[k] - kernel[k] + 1, strides[k])])

\* create_convolution_block: Conv3D, then normalisation and activation, which
\* keep the shape.
create_convolution_block(input_layer, n_filters, strides) ==
    Conv3D(input_layer, n_filters, <<3, 3, 3>>, "same", strides)

\* get_up_convolution: the layer it returns.
get_up_convolution(n_filters, pool_size, deconvolution) ==
    IF deconvolution
    THEN [kind |-> "Deconvolution3D", filters |-> n_filters,
          kernel_size |-> <<2, 2, 2>>, strides |-> <<2, 2, 2>>]
    ELSE [kind |-> "UpSampling3D", filters |-> 0,
          kernel_size |-> <<1, 1, 1>>, strides |-> pool_size]

\* The layer returned by get_up_convolution applied to a tensor.
\* Deconvolution3D (padding 'valid'): in*stride + max(kernel - stride, 0);
\* UpSampling3D repeats every voxel size times and keeps the channels.
ApplyUp(up, t) ==
    IF up.kind = "Deconvolution3D"
    THEN Tensor(up.filters,
                [k \in Axes |-> t.size[k] * up.strides[k]
                                + Max(up.kernel_size[k] - up.strides[k], 0)])
    ELSE Tensor(t.channels, [k \in Axes |-> t.size[k] * up.strides[k]])

\* concatenate([a, b], axis=1): defined when the other axes agree.
CanConcatenate(a, b) == a.size = b.size

concatenate(a, b) == Tensor(a.channels + b.channels, a.size)

----------------------------------------------------------------------------
(* Filter counts and loop bounds of unet_model_3d.                         *)

Block1Filters(n_base_filters, d) == n_base_filters * (2 ^ d)

Block2FiltersNoDouble(n_base_filters, d) == n_base_filters * (2 ^ d)

Block2Filters(n_base_filters, d) == n_base_filters * (2 ^ d) * 2

DownFilters(n_base_filters, d) == n_base_filters * (2 ^ d)

HasDownSamplingEveryLevel(d, depth) == d < depth

HasDownSampling(d, depth) == d < depth - 1

DecoderStart(depth) == depth - 2

DecoderFiltersOfBlock1(level) == level[1].channels

\* lines 85, 87: n_filters=levels[layer_depth][1]._keras_shape[1]
DecoderFilters(level) == level[2].channels

\* One entry of the layer log.
Layer(kind, role, level, filters, factor, in, other, out) ==
    [kind |-> kind, role |-> role, level |-> level, filters |-> filters,
     factor |-> factor, in |-> in, other |-> other, out |-> out]

\* Position after the encoder loop body ran for layer_depth = d.
AfterEncoder(d, depth) ==
    IF d + 1 < depth THEN [pc |-> "encoder", d |-> d + 1]
    ELSE IF DecoderStart(depth) >= 0
         THEN [pc |-> "decoder", d |-> DecoderStart(depth)]
         ELSE [pc |-> "final", d |-> d]

\* Position after the decoder loop body ran for layer_depth = d.
AfterDecoder(d) ==
    IF d - 1 >= 0 THEN [pc |-> "decoder", d |-> d - 1]
    ELSE [pc |-> "final", d |-> d]

----------------------------------------------------------------------------
(* Metrics.                                                                *)

Metric(name) == [fn |-> name, index |-> -1]

get_label_dice_coefficient_function(index) ==
    [fn |-> "label_dice_coefficient", index |-> index]

\* range(n) as a sequence
Range(n) == [i \in 1..n |-> i - 1]

RangeFromOne(n) == [i \in 1..(n - 1) |-> i]

LabelIndices(n_labels) == Range(n_labels)

\* if not isinstance(metrics, list): metrics = [metrics]
AsList(metrics) ==
    IF metrics.is_list THEN metrics.fns ELSE <<metrics.fn>>

\* lines 95-105
CompileMetrics(metrics, include_label_wise_dice_coefficients, n_labels) ==
    LET m == AsList(metrics)
        idx == LabelIndices(n_labels)
        label_wise_dice_metrics ==
            [i \in 1..Len(idx) |-> get_label_dice_coefficient_function(idx[i])]
    IN  IF include_label_wise_dice_coefficients /\ n_labels > 1
        THEN IF m # <<>> THEN m \o label_wise_dice_metrics
                         ELSE label_wise_dice_metrics
        ELSE m

----------------------------------------------------------------------------
(* unet_model_3d, one action per loop iteration / statement group.         *)

\* lines 61-73: one iteration of the encoder loop
EncoderLevel ==
    /\ upc = "encoder"
    /\ LET d == layer_depth
           layer1 == create_convolution_block(
                         current_layer,
                         Block1Filters(args.n_base_filters, d), <<1, 1, 1>>)
           layer2 == create_convolution_block(
                         layer1,
                         Block2Filters(args.n_base_filters, d), <<1, 1, 1>>)
           down == create_convolution_block(
                         layer2,
                         DownFilters(args.n_base_filters, d), <<2, 2, 2>>)
           l1 == Layer("Conv3D", "block1", d, layer1.channels, <<1, 1, 1>>,
                       current_layer, NoTensor, layer1)
           l2 == Layer("Conv3D", "block2", d, layer2.channels, <<1, 1, 1>>,
                       layer1, NoTensor, layer2)
           l3 == Layer("Conv3D", "down", d, down.channels, <<2, 2, 2>>,
                       layer2, NoTensor, down)
           nxt == AfterEncoder(d, args.depth)
       IN  /\ IF HasDownSampling(d, args.depth)
              THEN /\ current_layer' = down
                   /\ levels' = Append(levels, <<layer1, layer2, down>>)
                   /\ layers' = layers \o <<l1, l2, l3>>
              ELSE /\ current_layer' = layer2
                   /\ levels' = Append(levels, <<layer1, layer2>>)
                   /\ layers' = layers \o <<l1, l2>>
           /\ upc' = nxt.pc
           /\ layer_depth' = nxt.d
    /\ UNCHANGED <<args, output, compiled_metrics>>
    /\ UNCHANGED pipe_vars

\* lines 77-89: one iteration of the decoder loop; concatenate raises a
\* ValueError when the spatial sizes of its inputs differ.
DecoderLevel ==
    /\ upc = "decoder"
    /\ LET d == layer_depth
           up == get_up_convolution(current_layer.channels, args.pool_size,
                                    args.deconvolution)
           up_convolution == ApplyUp(up, current_layer)
           skip == levels[d + 1][2]
           concat == concatenate(up_convolution, skip)
           c1 == create_convolution_block(concat, DecoderFilters(levels[d + 1]),
                                          <<1, 1, 1>>)
           c2 == create_convolution_block(c1, DecoderFilters(levels[d + 1]),
                                          <<1, 1, 1>>)
           lu == Layer(up.kind, "up", d, up.filters, up.strides,
                       current_layer, NoTensor, up_convolution)
           lc == Layer("concatenate", "concat", d, 0, <<1, 1, 1>>,
                       up_convolution, skip, concat)
           l1 == Layer("Conv3D", "dec1", d, c1.channels, <<1, 1, 1>>,
                       concat, NoTensor, c1)
           l2 == Layer("Conv3D", "dec2", d, c2.channels, <<1, 1, 1>>,
                       c1, NoTensor, c2)
           nxt == AfterDecoder(d)
       IN  \/ /\ CanConcatenate(up_convolution, skip)
              /\ current_layer' = c2
              /\ layers' = layers \o <<lu, lc, l1, l2>>
              /\ upc' = nxt.pc
              /\ layer_depth' = nxt.d
           \/ /\ ~CanConcatenate(up_convolution, skip)
              /\ current_layer' = up_convolution
              /\ layers' = layers \o <<lu, [lc EXCEPT !.out = NoTensor]>>
              /\ upc' = "raised"
              /\ layer_depth' = d
    /\ UNCHANGED <<args, levels, output, compiled_metrics>>
    /\ UNCHANGED pipe_vars

\* lines 91-93
FinalConvolution ==
    /\ upc = "final"
    /\ LET final_convolution == Conv3D(current_layer, args.n_labels,
                                       <<1, 1, 1>>, "valid", <<1, 1, 1>>)
       IN  /\ output' = final_convolution
           /\ layers' = Append(layers,
                  Layer("Conv3D", "final", 0, args.n_labels, <<1, 1, 1>>,
                        current_layer, NoTensor, final_convolution))
    /\ upc' = "compile"
    /\ UNCHANGED <<args, layer_depth, current_layer, levels, compiled_metrics>>
    /\ UNCHANGED pipe_vars

\* lines 95-106
CompileModel ==
    /\ upc = "compile"
    /\ compiled_metrics' = CompileMetrics(
           args.metrics, args.include_label_wise_dice_coefficients,
           args.n_labels)
    /\ upc' = "done"
    /\ UNCHANGED <<args, layer_depth, current_layer, levels, layers, output>>
    /\ UNCHANGED pipe_vars

UnetNext == EncoderLevel \/ DecoderLevel \/ FinalConvolution \/ CompileModel

----------------------------------------------------------------------------
(* Arguments of unet_model_3d.                                             *)

MetricNames == {"dice_coefficient", "accuracy"}

SeqsUpTo(S, n) == UNION {[1..k -> S] : k \in 0..n}

\* the metrics argument: one metric function, or a list of them
MetricsArgs ==
    {[is_list |-> FALSE, fn |-> Metric(m), fns |-> <<>>] : m \in MetricNames}
    \cup {[is_list |-> TRUE, fn |-> Metric("dice_coefficient"), fns |-> s] :
             s \in SeqsUpTo({Metric(m) : m \in MetricNames}, MaxMetrics)}

DefaultMetrics ==
    [is_list |-> FALSE, fn |-> Metric("dice_coefficient"), fns |-> <<>>]

\* Every layer treats the three axes alike, so shapes are enumerated up to a
\* permutation of the axes: the (size, pool) pairs are in ascending order.
PairLeq(s, p, i, j) ==
    \/ s[i] < s[j]
    \/ s[i] = s[j] /\ p[i] <= p[j]

ShapeArgs ==
    {sp \in [size : [Axes -> 1..MaxSize], pool_size : [Axes -> 1..MaxPool]] :
        /\ PairLeq(sp.size, sp.pool_size, 1, 2)
        /\ PairLeq(sp.size, sp.pool_size, 2, 3)}

UnetStart(a) ==
    /\ args = a
    /\ current_layer = Input(a.input_shape)
    /\ levels = <<>>
    /\ layers = <<>>
    /\ output = NoTensor
    /\ compiled_metrics = <<>>
    /\ layer_depth = 0
    /\ upc = IF a.depth = 0 THEN "final" ELSE "encoder"

PipeIdle ==
    /\ ppc = 0
    /\ shorter_list = <<>>
    /\ wf_edges = {}
    /\ instances = <<>>
    /\ exec_edges = <<>>
    /\ runs = <<>>

\* lines 26-28, 56-58: the call, with shape and structure arguments varied
Init ==
    /\ \E sp \in ShapeArgs, depth \in 0..MaxDepth,
          n_base_filters \in 1..MaxBaseFilters, n_labels \in 1..MaxLabels,
          deconvolution \in BOOLEAN :
          UnetStart([input_shape |-> <<1>> \o sp.size,
                     pool_size |-> sp.pool_size,
                     n_labels |-> n_labels,
                     deconvolution |-> deconvolution,
                     depth |-> depth,
                     n_base_filters |-> n_base_filters,
                     include_label_wise_dice_coefficients |-> FALSE,
                     metrics |-> DefaultMetrics])
    /\ PipeIdle

Next == UnetNext

Spec == Init /\ [][Next]_vars

\* lines 26-28, 56-58: the call, with the metric arguments varied
MetricsInit ==
    /\ \E s \in 1..MaxSize, p \in 1..MaxPool, depth \in 0..MaxDepth,
          n_labels \in 1..MaxLabels, flag \in BOOLEAN, m \in MetricsArgs :
          UnetStart([input_shape |-> <<1, s, s, s>>,
                     pool_size |-> <<p, p, p>>,
                     n_labels |-> n_labels,
                     deconvolution |-> FALSE,
                     depth |-> depth,
                     n_base_filters |-> 1,
                     include_label_wise_dice_coefficients |-> flag,
                     metrics |-> m])
    /\ PipeIdle

MetricsSpec == MetricsInit /\ [][Next]_vars

----------------------------------------------------------------------------
(* train_preprocess_nipypeline_UMC_20191011.py: the workflow graph.        *)

\* line 29
side_list == <<"right", "left">>

\* line 31: sorted(os.listdir(...)), subjects named by their rank
SubjectLists ==
    {s \in SeqsUpTo(1..MaxSubjects, MaxSubjects) :
        \A i, j \in DOMAIN s : i < j => s[i] < s[j]}

\* lines 42-43
Iterables(sl) ==
    <<[field |-> "shorter_id", values |-> sl],
      [field |-> "side_id", values |-> side_list]>>

\* the nodes created by Node(...) and MapNode(...)
ProcessingNodes ==
    {"UMC_TSE_trim_pad_n", "UMC_TSE_reslice_n", "UMC_SEG_reslice_labels_n",
     "UMC_register_MPRAGE_to_UMC_TSE_native_n", "UMC_MPRAGE_reslice_n",
     "UMC_normalise_TSE_n", "UMC_normalise_MPRAGE_n"}

Nodes ==
    {"infosource", "selectfiles", "selecttemplates", "datasink"}
    \cup ProcessingNodes

\* one wf.connect([(src, dst, [(out, in), ...])]) call
Conn(src, dst, fields) == [src |-> src, dst |-> dst, fields |-> fields]

InfosourceConnectsBothIds ==
    <<Conn("infosource", "selectfiles",
           {<<"shorter_id", "shorter_id">>, <<"side_id", "side_id">>}),
      Conn("infosource", "selecttemplates",
           {<<"shorter_id", "shorter_id">>, <<"side_id", "side_id">>})>>

\* lines 64-67
InfosourceConnects ==
    <<Conn("infosource", "selectfiles",
           {<<"shorter_id", "shorter_id">>, <<"side_id", "side_id">>}),
      Conn("infosource", "selecttemplates", {<<"side_id", "side_id">>})>>

\* line 85
Step1Connects ==
    <<Conn("selectfiles", "UMC_TSE_trim_pad_n",
           {<<"umc_tse_native", "in_file">>})>>

\* lines 97-99
Step2Connects ==
    <<Conn("UMC_TSE_trim_pad_n", "UMC_TSE_reslice_n",
           {<<"out_files", "in_file">>}),
      Conn("selectfiles", "UMC_TSE_reslice_n",
           {<<"umc_tse_whole", "opt_in_file">>})>>

\* lines 117-119
Step3Connects ==
    <<Conn("UMC_TSE_reslice_n", "UMC_SEG_reslice_labels_n",
           {<<"out_files", "in_file">>}),
      Conn("selectfiles", "UMC_SEG_reslice_labels_n",
           {<<"umc_seg_native", "ref_in_file">>})>>

\* lines 129-130
Step4Connects ==
    <<Conn("selectfiles", "UMC_register_MPRAGE_to_UMC_TSE_native_n",
           {<<"umc_tse_native", "fixed_image">>,
            <<"umc_mprage_chunk", "moving_image">>})>>

Step5ConnectsSelfLoop ==
    <<Conn("UMC_MPRAGE_reslice_n", "UMC_MPRAGE_reslice_n",
           {<<"out_files", "in_file">>}),
      Conn("UMC_register_MPRAGE_to_UMC_TSE_native_n", "UMC_MPRAGE_reslice_n",
           {<<"warped_image", "opt_in_file">>})>>

Step5ConnectsNoWarped ==
    <<Conn("UMC_TSE_reslice_n", "UMC_MPRAGE_reslice_n",
           {<<"out_files", "in_file">>})>>

\* lines 141-143
Step5Connects ==
    <<Conn("UMC_TSE_reslice_n", "UMC_MPRAGE_reslice_n",
           {<<"out_files", "in_file">>}),
      Conn("UMC_register_MPRAGE_to_UMC_TSE_native_n", "UMC_MPRAGE_reslice_n",
           {<<"warped_image", "opt_in_file">>})>>

\* lines 155-163
Step6Connects ==
    <<Conn("selecttemplates", "UMC_normalise_TSE_n",
           {<<"tse_inthist_template", "in_file">>}),
      Conn("UMC_TSE_reslice_n", "UMC_normalise_TSE_n",
           {<<"out_files", "opt_in_file">>}),
      Conn("selecttemplates", "UMC_normalise_MPRAGE_n",
           {<<"mprage_inthist_template", "in_file">>}),
      Conn("UMC_MPRAGE_reslice_n", "UMC_normalise_MPRAGE_n",
           {<<"out_files", "opt_in_file">>})>>

DatasinkConnectsSameFolder ==
    <<Conn("UMC_TSE_trim_pad_n", "datasink",
           {<<"out_files", "UMC_TSE_native_trim_pad">>}),
      Conn("UMC_TSE_reslice_n", "datasink",
           {<<"out_files", "UMC_TSE_native_reslice">>}),
      Conn("UMC_SEG_reslice_labels_n", "datasink",
           {<<"out_files", "UMC_SEG_reslice_labels">>}),
      Conn("UMC_register_MPRAGE_to_UMC_TSE_native_n", "datasink",
           {<<"warped_image", "UMC_register_MPRAGE_to_UMC_TSE_native_n">>}),
      Conn("UMC_MPRAGE_reslice_n", "datasink",
           {<<"out_files", "UMC_MPRAGE_reslice_n">>}),
      Conn("UMC_normalise_TSE_n", "datasink",
           {<<"out_files", "UMC_TSE_normalised">>}),
      Conn("UMC_normalise_MPRAGE_n", "datasink",
           {<<"out_files", "UMC_TSE_normalised">>})>>

\* lines 176-182
DatasinkConnects ==
    <<Conn("UMC_TSE_trim_pad_n", "datasink",
           {<<"out_files", "UMC_TSE_native_trim_pad">>}),
      Conn("UMC_TSE_reslice_n", "datasink",
           {<<"out_files", "UMC_TSE_native_reslice">>}),
      Conn("UMC_SEG_reslice_labels_n", "datasink",
           {<<"out_files", "UMC_SEG_reslice_labels">>}),
      Conn("UMC_register_MPRAGE_to_UMC_TSE_native_n", "datasink",
           {<<"warped_image", "UMC_register_MPRAGE_to_UMC_TSE_native_n">>}),
      Conn("UMC_MPRAGE_reslice_n", "datasink",
           {<<"out_files", "UMC_MPRAGE_reslice_n">>}),
      Conn("UMC_normalise_TSE_n", "datasink",
           {<<"out_files", "UMC_TSE_normalised">>}),
      Conn("UMC_normalise_MPRAGE_n", "datasink",
           {<<"out_files", "UMC_MPRAGE_normalised">>})>>

\* the wf.connect calls of the script, in program order
Connects ==
    InfosourceConnects \o Step1Connects \o Step2Connects \o Step3Connects
    \o Step4Connects \o Step5Connects \o Step6Connects \o DatasinkConnects

\* positions of the script: 1..Len(Connects) before the i-th wf.connect,
\* then before wf.run(), then inside wf.run()
AtRun == Len(Connects) + 1

Executing == Len(Connects) + 2

\* the graph edges one wf.connect call adds
EdgesOf(c) ==
    {[src |-> c.src, out |-> f[1], dst |-> c.dst, in |-> f[2]] : f \in c.fields}

\* the parameter combinations of a node's iterables: their product, the
\* first iterable varying slowest
Product(its) ==
    LET a == its[1].values
        b == its[2].values
    IN  [k \in 1..(Len(a) * Len(b)) |->
            [shorter_id |-> a[((k - 1) \div Len(b)) + 1],
             side_id |-> b[((k - 1) % Len(b)) + 1]]]

\* the execution graph: one copy of the workflow graph per combination,
\* kept as the set of nodes each node takes an input from
ExpandEdges(n) ==
    [x \in (1..n) \X Nodes |->
        {<<x[1], e.src>> : e \in {d \in wf_edges : d.dst = x[2]}}]

Done(k, n) == runs[<<k, n>>] >= 1

\* a node can run once every node it takes an input from has run
Ready(k, n) ==
    \A p \in exec_edges[<<k, n>>] : runs[p] >= 1

\* lines 64-182: the next wf.connect call
Connect ==
    /\ ppc \in 1..Len(Connects)
    /\ wf_edges' = wf_edges \cup EdgesOf(Connects[ppc])
    /\ ppc' = ppc + 1
    /\ UNCHANGED <<shorter_list, instances, exec_edges, runs>>
    /\ UNCHANGED unet_vars

\* line 193, wf.run(): the graph is expanded over infosource's iterables
RunWorkflow ==
    /\ ppc = AtRun
    /\ LET combos == Product(Iterables(shorter_list))
       IN  /\ instances' = combos
           /\ exec_edges' = ExpandEdges(Len(combos))
           /\ runs' = [x \in (1..Len(combos)) \X Nodes |-> 0]
    /\ ppc' = Executing
    /\ UNCHANGED <<shorter_list, wf_edges>>
    /\ UNCHANGED unet_vars

\* line 193, wf.run(): the engine runs one node of the execution graph
ExecNode(k, n) ==
    /\ ppc = Executing
    /\ runs[<<k, n>>] = 0
    /\ Ready(k, n)
    /\ runs' = [runs EXCEPT ![<<k, n>>] = @ + 1]
    /\ UNCHANGED <<ppc, shorter_list, wf_edges, instances, exec_edges>>
    /\ UNCHANGED unet_vars

UnetIdle ==
    /\ args = [depth |-> 0]
    /\ upc = "idle"
    /\ layer_depth = 0
    /\ current_layer = NoTensor
    /\ levels = <<>>
    /\ layers = <<>>
    /\ output = NoTensor
    /\ compiled_metrics = <<>>

\* lines 29-36: the script starts with the subject directory listed
PipeInit ==
    /\ ppc = 1
    /\ shorter_list \in SubjectLists
    /\ wf_edges = {}
    /\ instances = <<>>
    /\ exec_edges = <<>>
    /\ runs = <<>>
    /\ UnetIdle

PipeNext ==
    \/ Connect
    \/ RunWorkflow
    \/ \E k \in DOMAIN instances, n \in Nodes : ExecNode(k, n)

PipeSpec == PipeInit /\ [][PipeNext]_vars

\* the script runs to its end and the engine runs every node that is ready
FairPipeSpec == PipeSpec /\ WF_vars(PipeNext)

----------------------------------------------------------------------------
(* Properties of unet_model_3d.                                            *)

InputSize(a) == SubSeq(a.input_shape, 2, 4)

\* the docstring's precondition: x, y and z divisible by pool_size^depth
DivisibleByPool(a) ==
    \A k \in Axes : InputSize(a)[k] % (a.pool_size[k] ^ a.depth) = 0

RoleLayers(r) == {i \in DOMAIN layers : layers[i].role = r}

CountRole(r) == Cardinality(RoleLayers(r))

\* C1 (as claimed): for depth >= 2 and an input divisible by pool_size^depth,
\* every decoder step at level d concatenates the up-sampled map with
\* levels[d][1], and the two maps have the same spatial size, so that no
\* concatenation is rejected.
C1_SkipSizesMatch ==
    (args.depth >= 2 /\ DivisibleByPool(args)) =>
        /\ upc # "raised"
        /\ \A i \in RoleLayers("concat") :
              /\ layers[i].other = levels[layers[i].level + 1][2]
              /\ layers[i - 1].role = "up"
              /\ layers[i].in = layers[i - 1].out
              /\ layers[i].in.size = layers[i].other.size

\* C2: in the encoder, block 1 of level d has n_base_filters*2^d filters and
\* block 2 has n_base_filters*2^(d+1); every block of level d+1, and the
\* strided convolution passed down from it, has twice the filters of the
\* corresponding layer of level d.
C2_FiltersDouble ==
    /\ \A i \in RoleLayers("block1") :
          /\ layers[i].filters = args.n_base_filters * 2 ^ layers[i].level
          /\ layers[i].out.channels = layers[i].filters
    /\ \A i \in RoleLayers("block2") :
          /\ layers[i].filters = args.n_base_filters * 2 ^ (layers[i].level + 1)
          /\ layers[i].out.channels = layers[i].filters
    /\ \A i, j \in DOMAIN layers :
          (/\ layers[i].role \in {"block1", "block2", "down"}
           /\ layers[j].role = layers[i].role
           /\ layers[j].level = layers[i].level + 1)
          => /\ layers[j].filters = 2 * layers[i].filters
             /\ layers[j].out.channels = 2 * layers[i].out.channels
    /\ \A d \in 1..Len(levels) : \A k \in 1..Len(levels[d]) :
          d < Len(levels) /\ k <= Len(levels[d + 1])
          => levels[d + 1][k].channels = 2 * levels[d][k].channels

C2_Witness ==
    /\ upc = "done"
    /\ args.depth = 3
    /\ args.n_base_filters = 2
    /\ CountRole("down") = 2
    /\ levels[3][2].channels = 16

\* C5 (as claimed): for depth >= 1 and an input divisible by pool_size^depth
\* the call returns a model whose output has n_labels channels and the
\* input's x, y and z sizes.
C5_OutputShape ==
    (upc \in {"done", "raised"} /\ args.depth >= 1 /\ DivisibleByPool(args)) =>
        /\ upc = "done"
        /\ output.channels = args.n_labels
        /\ output.size = InputSize(args)

\* the caller's metrics, a single metric wrapped into a list
CallerMetrics == IF args.metrics.is_list THEN args.metrics.fns
                 ELSE <<args.metrics.fn>>

\* C6: the compiled metric list is the caller's metrics followed by one label
\* dice metric per label index 0..n_labels-1 when the flag is set and
\* n_labels > 1, and exactly the caller's metrics otherwise.
C6_Metrics ==
    upc = "done" =>
        compiled_metrics =
            CallerMetrics \o
            (IF args.include_label_wise_dice_coefficients /\ args.n_labels > 1
             THEN [i \in 1..args.n_labels |->
                      [fn |-> "label_dice_coefficient", index |-> i - 1]]
             ELSE <<>>)

C6_Witness ==
    /\ upc = "done"
    /\ args.include_label_wise_dice_coefficients
    /\ args.n_labels = 2
    /\ ~args.metrics.is_list
    /\ Len(compiled_metrics) = 3
    /\ compiled_metrics[2].index = 0

\* C7: a built model of depth >= 1 has exactly depth encoder levels, depth-1
\* down-sampling layers and depth-1 up-sampling layers.
C7_LevelCounts ==
    (upc = "done" /\ args.depth >= 1) =>
        /\ Len(levels) = args.depth
        /\ CountRole("block1") = args.depth
        /\ CountRole("down") = args.depth - 1
        /\ CountRole("up") = args.depth - 1
        /\ CountRole("up") = CountRole("down")

C7_Witness ==
    /\ upc = "done"
    /\ args.depth = 3
    /\ CountRole("down") = 2
    /\ CountRole("up") = 2

\* C8 (as claimed): with deconvolution every decoder step uses a transpose
\* convolution with as many filters as its input has channels, enlarging
\* every axis by pool_size; without, it uses UpSampling3D of size pool_size.
C8_UpConvolution ==
    \A i \in RoleLayers("up") :
        IF args.deconvolution
        THEN /\ layers[i].kind = "Deconvolution3D"
             /\ layers[i].filters = layers[i].in.channels
             /\ \A k \in Axes :
                   layers[i].out.size[k] = layers[i].in.size[k] * args.pool_size[k]
        ELSE /\ layers[i].kind = "UpSampling3D"
             /\ layers[i].factor = args.pool_size

\* C11: at decoder level d the concatenation joins an up-sampled map of
\* n_base_filters*2^(d+2) channels with a skip map of n_base_filters*2^(d+1)
\* channels, and both convolution blocks after it output
\* n_base_filters*2^(d+1) channels; for depth >= 1 the final convolution is
\* fed 2*n_base_filters channels; for depth = 1 no decoder step is executed
\* and for depth = 0 the final convolution is applied to the input.
C11_DecoderChannels ==
    /\ \A i \in RoleLayers("concat") :
          LET d == layers[i].level
          IN  /\ d \in 0..(args.depth - 2)
              /\ layers[i].in.channels = args.n_base_filters * 2 ^ (d + 2)
              /\ layers[i].other.channels = args.n_base_filters * 2 ^ (d + 1)
              /\ layers[i].out # NoTensor =>
                    layers[i].out.channels =
                        args.n_base_filters * 2 ^ (d + 2)
                        + args.n_base_filters * 2 ^ (d + 1)
    /\ \A i \in RoleLayers("dec1") \cup RoleLayers("dec2") :
          /\ layers[i].filters = args.n_base_filters * 2 ^ (layers[i].level + 1)
          /\ layers[i].out.channels = layers[i].filters
    /\ \A i \in RoleLayers("dec1") :
          /\ layers[i - 1].role = "concat"
          /\ layers[i].in = layers[i - 1].out
    /\ \A i \in RoleLayers("final") :
          /\ args.depth >= 1 =>
                /\ layers[i].in.channels = 2 * args.n_base_filters
                /\ CountRole("concat") = args.depth - 1
                /\ CountRole("dec2") = args.depth - 1
          /\ args.depth = 1 =>
                /\ RoleLayers("up") = {}
                /\ RoleLayers("concat") = {}
                /\ layers[i].in = layers[i - 1].out
                /\ layers[i - 1].role = "block2"
          /\ args.depth = 0 =>
                /\ i = 1
                /\ layers[i].in = Input(args.input_shape)

C11_Witness ==
    /\ upc = "done"
    /\ args.depth = 3
    /\ args.n_base_filters = 2
    /\ CountRole("concat") = 2
    /\ \E i \in RoleLayers("concat") :
          layers[i].level = 1 /\ layers[i].out.channels = 24
    /\ \E i \in RoleLayers("final") : layers[i].in.channels = 4

----------------------------------------------------------------------------
(* Properties of the preprocessing workflow.                               *)

TRIM == "UMC_TSE_trim_pad_n"
TSE_RESLICE == "UMC_TSE_reslice_n"
SEG_RESLICE == "UMC_SEG_reslice_labels_n"
REGISTER == "UMC_register_MPRAGE_to_UMC_TSE_native_n"
MPRAGE_RESLICE == "UMC_MPRAGE_reslice_n"
NORM_TSE == "UMC_normalise_TSE_n"
NORM_MPRAGE == "UMC_normalise_MPRAGE_n"

\* node n has run only if node m has run (in instance k)
After(k, n, m) == Done(k, n) => Done(k, m)

\* C3 (as claimed): the steps form the chain trim/pad -> TSE reslice ->
\* register -> MPRAGE reslice -> histogram-normalise -> sink, each step
\* running only after the step before it has completed.
C3_StraightLine ==
    \A k \in DOMAIN instances :
        /\ After(k, TSE_RESLICE, TRIM)
        /\ After(k, REGISTER, TSE_RESLICE)
        /\ After(k, MPRAGE_RESLICE, REGISTER)
        /\ After(k, NORM_TSE, MPRAGE_RESLICE)
        /\ After(k, NORM_MPRAGE, MPRAGE_RESLICE)
        /\ After(k, "datasink", NORM_TSE)
        /\ After(k, "datasink", NORM_MPRAGE)

\* C3 (amended): the steps form a graph with two branches: the TSE reslice
\* runs after trim/pad; registration runs after selectfiles only; the MPRAGE
\* reslice after both the TSE reslice and registration; the TSE normalise
\* after the TSE reslice and the MPRAGE normalise after the MPRAGE reslice;
\* the sink after both normalisations.
C3_TwoBranches ==
    \A k \in DOMAIN instances :
        /\ After(k, TSE_RESLICE, TRIM)
        /\ After(k, REGISTER, "selectfiles")
        /\ After(k, MPRAGE_RESLICE, TSE_RESLICE)
        /\ After(k, MPRAGE_RESLICE, REGISTER)
        /\ After(k, NORM_TSE, TSE_RESLICE)
        /\ After(k, NORM_MPRAGE, MPRAGE_RESLICE)
        /\ After(k, "datasink", NORM_TSE)
        /\ After(k, "datasink", NORM_MPRAGE)

\* one instance ran to the sink; in another, registration ran before trim/pad
\* and before the TSE reslice
C3_Witness ==
    \E j, k \in DOMAIN instances :
        /\ Done(j, "datasink")
        /\ Done(k, REGISTER)
        /\ ~Done(k, TRIM)
        /\ ~Done(k, TSE_RESLICE)

SinkEdges == {e \in wf_edges : e.dst = "datasink"}

\* C4: once the script has made its connections, each of the seven
\* processing nodes has exactly one edge into the datasink, the seven target
\* subfolders are pairwise distinct, and the datasink runs only after all
\* seven nodes have run.
C4_Sink ==
    /\ ppc >= AtRun =>
          /\ \A n \in ProcessingNodes :
                Cardinality({e \in SinkEdges : e.src = n}) = 1
          /\ {e.src : e \in SinkEdges} = ProcessingNodes
          /\ Cardinality(ProcessingNodes) = 7
          /\ Cardinality({e.in : e \in SinkEdges}) = 7
    /\ \A k \in DOMAIN instances :
          Done(k, "datasink") => \A n \in ProcessingNodes : Done(k, n)

C4_Witness ==
    \E k \in DOMAIN instances :
        /\ Done(k, "datasink")
        /\ Cardinality(SinkEdges) = 7

\* nodes reachable from n over one or more edges of E
RECURSIVE ReachFrom(_, _, _)
ReachFrom(E, frontier, seen) ==
    LET new == {e.dst : e \in {x \in E : x.src \in frontier}} \ seen
    IN  IF new = {} THEN seen ELSE ReachFrom(E, new, seen \cup new)

Reach(E, n) == ReachFrom(E, {n}, {})

Acyclic(E) == \A n \in Nodes : n \notin Reach(E, n)

\* a node has run only if every node it is connected from has run
DependencyOrder ==
    \A x \in DOMAIN runs :
        runs[x] >= 1 =>
            \A e \in wf_edges : e.dst = x[2] => runs[<<x[1], e.src>>] >= 1

AllRunOnce ==
    /\ ppc = Executing
    /\ DOMAIN runs = (DOMAIN instances) \X Nodes
    /\ \A x \in DOMAIN runs : runs[x] = 1

\* C9: the graph is acyclic and does not change while it is executed; a node
\* runs only after every node it is connected from has run, and never twice;
\* under fair scheduling every node of every (subject, side) instance
\* eventually has run exactly once, and stays so.
C9_Schedule ==
    /\ [](/\ Acyclic(wf_edges)
          /\ DependencyOrder
          /\ \A x \in DOMAIN runs : runs[x] <= 1)
    /\ [][ppc = Executing =>
             /\ wf_edges' = wf_edges
             /\ exec_edges' = exec_edges
             /\ instances' = instances]_vars
    /\ <>[]AllRunOnce

\* registration and trim/pad, which no path connects, have run in either
\* order: one instance ran registration first, another trim/pad first
C9_Witness ==
    \E j, k \in DOMAIN instances :
        /\ Done(j, REGISTER) /\ ~Done(j, TRIM)
        /\ Done(k, TRIM) /\ ~Done(k, REGISTER)
        /\ REGISTER \notin Reach(wf_edges, TRIM)
        /\ TRIM \notin Reach(wf_edges, REGISTER)

\* identifiers a node takes from infosource
InfosourceFields(n) ==
    {e.in : e \in {x \in wf_edges : x.src = "infosource" /\ x.dst = n}}

====
